---- MODULE Spec2Model ----
(***************************************************************************)
(* Credential resolution and cluster session bootstrap of the three        *)
(* provider connectors (EKS, GKE, AKS).  A behaviour of Spec is one run of *)
(* one connector: the environment is fixed in the initial state, every     *)
(* external service (SDK config loader, STS, EKS, GKE, ARM, token          *)
(* endpoints, client-go) answers nondeterministically when it is called.   *)
(* A behaviour of SpecMain is one process: a main function calling its     *)
(* connectors in turn.                                                     *)
(***************************************************************************)
EXTENDS Integers, Sequences, FiniteSets, TLC

VARIABLES
    provider,   \* which connector this run executes: "aws", "gcp", "azure"
    env,        \* process environment: variable name -> value (a string as a sequence of characters)
    pc,         \* position of the connector
    cfg,        \* AWSConfig / GCPConfig held by the client manager; AKS constructor arguments
    attempts,   \* credential sources the resolver has tried to construct, in order
    calls,      \* external calls issued so far, in order
    cluster,    \* the cluster descriptor fetched by initKubernetesClient
    caCert,     \* decoded / extracted CA bytes
    token,      \* bearer token: the credential source it was minted from, or "none"
    k8sClient,  \* the Kubernetes session handle of the client (c.k8sClient)
    handles,    \* GCP API client handles currently open
    logged,     \* failures of post-connection calls that were logged and not returned
    err,        \* the error the connector returned
    awsConfig,  \* m.awsConfig of the AWS client manager: the credential source of the stored
                \* configuration, "none" while nothing is stored
    region,     \* the region field of the EKSClient, which GetRegion returns
    entry,      \* how the connector is entered: "run" (Run*Test) or "new" (the constructor)
    program,    \* the main function that drives the connectors, "none" for a lone connector
    argv,       \* command-line arguments of the process
    results,    \* what the connectors main has called returned, in order
    exitCode,   \* exit status of the process, -1 while it has not exited
    failed      \* the external calls of the connector that returned an error

\* what no connector step changes
outer == <<entry, program, argv, results, exitCode>>

vars == <<provider, env, pc, cfg, attempts, calls, cluster, caCert, token, k8sClient, handles,
          logged, err, awsConfig, region, failed, outer>>

----------------------------------------------------------------------------
(* Bounds of the model *)

\* longest CA certificate field (characters) a control plane returns
MaxCALen == 4
\* longest GOOGLE_CLOUD_PROJECT value (characters) drawn for the environment
MaxIdLen == 7

----------------------------------------------------------------------------
(* Strings are sequences of characters *)

Empty == << >>

\* some non-empty value of an environment variable
Set == <<"x">>

StrTrue == <<"t", "r", "u", "e">>

Contains(s, c) == \E i \in 1..Len(s) : s[i] = c

\* all sequences over alphabet A of length at most n
RECURSIVE SeqsUpTo(_, _)
SeqsUpTo(A, n) ==
    IF n = 0 THEN {Empty}
    ELSE LET shorter == SeqsUpTo(A, n - 1)
         IN  shorter \cup {Append(s, c) : s \in {t \in shorter : Len(t) = n - 1}, c \in A}

\* n copies of character c
RECURSIVE Rep(_, _)
Rep(c, n) == IF n = 0 THEN Empty ELSE Append(Rep(c, n - 1), c)

----------------------------------------------------------------------------
(* encoding/base64 StdEncoding.DecodeString *)

B64Alphabet ==
    << "A","B","C","D","E","F","G","H","I","J","K","L","M","N","O","P",
       "Q","R","S","T","U","V","W","X","Y","Z","a","b","c","d","e","f",
       "g","h","i","j","k","l","m","n","o","p","q","r","s","t","u","v",
       "w","x","y","z","0","1","2","3","4","5","6","7","8","9","+","/" >>

B64Chars == {B64Alphabet[i] : i \in 1..Len(B64Alphabet)}

\* the six bits of an alphabet character (0 for any other character)
B64Index(c) ==
    IF c \in B64Chars THEN (CHOOSE i \in 1..Len(B64Alphabet) : B64Alphabet[i] = c) - 1 ELSE 0

\* the decoder skips carriage returns and line feeds
B64Strip(s) == SelectSeq(s, LAMBDA c : c \notin {"\n", "\r"})

\* number of trailing padding characters taken into account (at most two)
B64Pad(t) ==
    LET n == Len(t)
    IN  IF n >= 1 /\ t[n] = "="
        THEN (IF n >= 2 /\ t[n - 1] = "=" THEN 2 ELSE 1)
        ELSE 0

\* DecodeString returns no error: whole quanta of four characters, alphabet
\* characters only, padding only as the last one or two characters
B64Valid(s) ==
    LET t == B64Strip(s)
    IN  /\ Len(t) % 4 = 0
        /\ \A i \in 1..(Len(t) - B64Pad(t)) : t[i] \in B64Chars

\* the three bytes of one quantum (padding counts as zero bits)
B64Quantum(q) ==
    LET v(i) == B64Index(q[i])
    IN  << v(1) * 4 + (v(2) \div 16),
           (v(2) % 16) * 16 + (v(3) \div 4),
           (v(3) % 4) * 64 + v(4) >>

RECURSIVE B64Bytes(_)
B64Bytes(t) ==
    IF Len(t) < 4 THEN << >>
    ELSE B64Quantum(SubSeq(t, 1, 4)) \o B64Bytes(SubSeq(t, 5, Len(t)))

\* the decoded bytes of a valid input
B64Decode(s) ==
    LET t == B64Strip(s)
        all == B64Bytes(t)
    IN  SubSeq(all, 1, Len(all) - B64Pad(t))

----------------------------------------------------------------------------
(* Environment *)

AWSVars == {"EKS_CLUSTER_NAME", "AWS_REGION", "AWS_PROFILE", "AWS_ACCESS_KEY_ID",
            "AWS_SECRET_ACCESS_KEY", "AWS_SESSION_TOKEN"}
GCPVars == {"GKE_CLUSTER_NAME", "GOOGLE_CLOUD_PROJECT", "GKE_ZONE",
            "GOOGLE_APPLICATION_CREDENTIALS", "GCP_CREDENTIALS_JSON"}
AzureVars == {"AKS_CLUSTER_NAME", "AZURE_RESOURCE_GROUP", "AZURE_SUBSCRIPTION_ID",
              "AZURE_CLIENT_ID", "AZURE_CLIENT_SECRET", "AZURE_TENANT_ID", "AZURE_USE_MSI"}
EnvVars == AWSVars \cup GCPVars \cup AzureVars

NoEnv == [v \in EnvVars |-> Empty]

Opt == {Empty, Set}

AWSEnvs ==
    { [NoEnv EXCEPT !["EKS_CLUSTER_NAME"] = n, !["AWS_REGION"] = r, !["AWS_PROFILE"] = p,
                    !["AWS_ACCESS_KEY_ID"] = a, !["AWS_SECRET_ACCESS_KEY"] = s] :
        n \in Opt, r \in Opt, p \in Opt, a \in Opt, s \in Opt }

----------------------------------------------------------------------------
(* Errors, calls, session handles *)

NoErr == [msg |-> "", status |-> ""]
Err(m) == [msg |-> m, status |-> ""]
ErrStatus(m, st) == [msg |-> m, status |-> st]

Call(op, arg) == [op |-> op, arg |-> arg]
Ops == {calls[i].op : i \in 1..Len(calls)}
Issued(op) == op \in Ops

NoCluster == [status |-> "none", ca |-> Empty]
NoClient == [set |-> FALSE, insecure |-> FALSE, ca |-> Empty, token |-> "none"]
Client(ca, tok, insecure) == [set |-> TRUE, insecure |-> insecure, ca |-> ca, token |-> tok]

\* the connector returns e
Fail(e) == /\ err' = e
           /\ pc' = "done"
           /\ UNCHANGED failed

\* mutant: the failed call is taken note of and the connector returns nil
CallFail_Swallowed(op, e) == /\ err' = NoErr
                             /\ pc' = "done"
                             /\ failed' = failed \cup {op}

\* the connector returns e because the external call op returned an error
CallFail(op, e) == /\ err' = e
                   /\ pc' = "done"
                   /\ failed' = failed \cup {op}

\* CA certificate fields a control plane may return
CAAlphabet == {"A", "/", "=", "!", "\n"}
CAFields == SeqsUpTo(CAAlphabet, MaxCALen)

\* descriptors a control plane may return: any status; the CA field, which is
\* read only for a cluster in the running status, is drawn in full for that
\* status and up to one character for the others.  The field is always
\* present: a descriptor without it (a nil pointer dereferenced at eks.go 219)
\* is not drawn
Descriptors(statuses, running) ==
    [status : {running}, ca : CAFields]
    \cup [status : statuses \ {running}, ca : SeqsUpTo(CAAlphabet, 1)]

\* base64.StdEncoding.DecodeString on the CA field followed by the err != nil
\* test: TRUE when initKubernetesClient returns the decoding error
\* mutant: the decoding error is dropped
CADecodeFails_Ignored(ca) == FALSE

CADecodeFails(ca) == ~B64Valid(ca)

----------------------------------------------------------------------------
(* AWS: eks.go *)

AWSDefaultRegion == <<"us-east-1">>

\* mutant: one of the two keys is enough for the static branch
AWSCredentialSource_AnyKey(c) ==
    IF c.AccessKey # Empty \/ c.SecretKey # Empty THEN "static"
    ELSE IF c.Profile # Empty THEN "profile"
    ELSE "default"

\* the branch initializeAWSConfig takes
AWSCredentialSource(c) ==
    IF c.AccessKey # Empty /\ c.SecretKey # Empty THEN "static"
    ELSE IF c.Profile # Empty THEN "profile"
    ELSE "default"

\* the AWSConfig fields each config* helper hands to config.LoadDefaultConfig
AWSLoadOptions(source) ==
    CASE source = "static"  -> {"Region", "AccessKey", "SecretKey", "SessionToken"}
      [] source = "profile" -> {"Region", "Profile"}
      [] source = "default" -> {"Region"}

EKSStatuses == {"ACTIVE", "CREATING", "FAILED"}

\* mutant: only a failed cluster is refused
EKSClusterActive_NotFailed(status) == status # "FAILED"

EKSClusterActive(status) == status = "ACTIVE"

RunEKSTest ==
    /\ provider = "aws" /\ pc = "start" /\ entry = "run"
    /\ IF env["EKS_CLUSTER_NAME"] = Empty
       THEN /\ Fail(Err("EKS_CLUSTER_NAME environment variable is required"))
            /\ UNCHANGED <<cfg, region>>
       ELSE /\ cfg' = [ClusterName  |-> env["EKS_CLUSTER_NAME"],
                       Region       |-> IF env["AWS_REGION"] = Empty
                                        THEN AWSDefaultRegion ELSE env["AWS_REGION"],
                       Profile      |-> env["AWS_PROFILE"],
                       AccessKey    |-> env["AWS_ACCESS_KEY_ID"],
                       SecretKey    |-> env["AWS_SECRET_ACCESS_KEY"],
                       SessionToken |-> env["AWS_SESSION_TOKEN"]]
            /\ region' = cfg'.Region
            /\ pc' = "initializeAWSConfig"
            /\ UNCHANGED <<err, failed>>
    /\ UNCHANGED <<outer, awsConfig, provider, env, attempts, calls, cluster, caCert, token, k8sClient, handles, logged>>

\* NewEKSClient called by a program of its own (lines 183-196): the caller hands
\* over the values RunEKSTest would read, without RunEKSTest's checks and
\* defaults; the client's region field is the Region of the argument (line 195)
NewEKSClient ==
    /\ provider = "aws" /\ pc = "start" /\ entry = "new"
    /\ cfg' = [ClusterName  |-> env["EKS_CLUSTER_NAME"],
               Region       |-> env["AWS_REGION"],
               Profile      |-> env["AWS_PROFILE"],
               AccessKey    |-> env["AWS_ACCESS_KEY_ID"],
               SecretKey    |-> env["AWS_SECRET_ACCESS_KEY"],
               SessionToken |-> env["AWS_SESSION_TOKEN"]]
    /\ region' = cfg'.Region
    /\ pc' = "initializeAWSConfig"
    /\ UNCHANGED <<outer, awsConfig, provider, env, attempts, calls, cluster, caCert, token, k8sClient, handles, logged, err, failed>>

\* mutant: a failed load of the selected source falls through to the default chain
initializeAWSConfig_Fallback ==
    /\ provider = "aws" /\ pc = "initializeAWSConfig"
    /\ LET c == [cfg EXCEPT !.Region = IF @ = Empty THEN AWSDefaultRegion ELSE @]
           source == AWSCredentialSource(c)
       IN  /\ cfg' = c
           /\ \/ /\ attempts' = Append(attempts, source)
                 /\ calls' = Append(calls, Call("config.LoadDefaultConfig", AWSLoadOptions(source)))
              \/ /\ source # "default"
                 /\ attempts' = attempts \o <<source, "default">>
                 /\ calls' = calls \o << Call("config.LoadDefaultConfig", AWSLoadOptions(source)),
                                          Call("config.LoadDefaultConfig", AWSLoadOptions("default")) >>
           /\ \E ok \in BOOLEAN :
                IF ok THEN pc' = "validateCredentials" /\ UNCHANGED <<err, failed>>
                ELSE CallFail("config.LoadDefaultConfig", Err("failed to load AWS configuration"))
    /\ UNCHANGED <<outer, awsConfig, region, provider, env, cluster, caCert, token, k8sClient, handles, logged>>

\* initializeAWSConfig up to the load of the configuration (lines 56-77)
initializeAWSConfig ==
    /\ provider = "aws" /\ pc = "initializeAWSConfig"
    /\ LET c == [cfg EXCEPT !.Region = IF @ = Empty THEN AWSDefaultRegion ELSE @]
           source == AWSCredentialSource(c)
       IN  /\ cfg' = c
           /\ attempts' = Append(attempts, source)
           /\ calls' = Append(calls, Call("config.LoadDefaultConfig", AWSLoadOptions(source)))
           /\ \E ok \in BOOLEAN :
                IF ok THEN pc' = "validateCredentials" /\ UNCHANGED <<err, failed>>
                ELSE CallFail("config.LoadDefaultConfig", Err("failed to load AWS configuration"))
    /\ UNCHANGED <<outer, awsConfig, region, provider, env, cluster, caCert, token, k8sClient, handles, logged>>

\* what sts.GetCallerIdentity answers: an error, or which identity fields are present
STSAnswers == [ok : BOOLEAN, fields : SUBSET {"Account", "Arn", "UserId"}]

\* mutant: only the account of the caller identity is looked at
IdentityComplete_AccountOnly(r) == "Account" \in r.fields

\* the nil checks of validateCredentials on the caller identity (lines 148-150)
IdentityComplete(r) == r.fields = {"Account", "Arn", "UserId"}

\* validateCredentials and the rest of initializeAWSConfig (lines 79-85, 137-155);
\* the call is logged with the source of the credentials and the answer
AWSvalidateCredentials ==
    /\ provider = "aws" /\ pc = "validateCredentials"
    /\ \E r \in STSAnswers :
         /\ calls' = Append(calls, Call("sts.GetCallerIdentity",
                                        [source |-> attempts[Len(attempts)], answer |-> r]))
         /\ IF ~r.ok
            THEN CallFail("sts.GetCallerIdentity", Err("failed to validate AWS credentials")) /\ UNCHANGED awsConfig
            ELSE IF ~IdentityComplete(r)
            THEN Fail(Err("incomplete AWS caller identity information")) /\ UNCHANGED awsConfig
            ELSE /\ awsConfig' = attempts[Len(attempts)]
                 /\ pc' = "EKSinitKubernetesClient"
                 /\ UNCHANGED <<err, failed>>
    /\ UNCHANGED <<outer, region, provider, env, cfg, attempts, cluster, caCert, token, k8sClient, handles, logged>>

\* initKubernetesClient: describe, readiness check, CA decoding (lines 206-222)
EKSinitKubernetesClient ==
    /\ provider = "aws" /\ pc = "EKSinitKubernetesClient"
    /\ calls' = Append(calls, Call("eks.DescribeCluster", cfg.ClusterName))
    /\ \/ /\ CallFail("eks.DescribeCluster", Err("failed to describe EKS cluster"))
          /\ UNCHANGED <<cluster, caCert>>
       \/ \E d \in Descriptors(EKSStatuses, "ACTIVE") :
            /\ cluster' = d
            /\ IF ~EKSClusterActive(d.status)
               THEN /\ Fail(ErrStatus("cluster is not active, current status", d.status))
                    /\ UNCHANGED caCert
               ELSE IF CADecodeFails(d.ca)
               THEN /\ Fail(Err("failed to decode certificate authority data"))
                    /\ UNCHANGED caCert
               ELSE /\ caCert' = B64Decode(d.ca)
                    /\ pc' = "EKSgetToken"
                    /\ UNCHANGED <<err, failed>>
    /\ UNCHANGED <<outer, awsConfig, region, provider, env, cfg, attempts, token, k8sClient, handles, logged>>

\* token.NewGenerator and generator.GetWithOptions (lines 224-234)
EKSgetToken ==
    /\ provider = "aws" /\ pc = "EKSgetToken"
    /\ \/ /\ calls' = Append(calls, Call("token.NewGenerator", Empty))
          /\ CallFail("token.NewGenerator", Err("failed to create token generator"))
          /\ UNCHANGED token
       \/ /\ calls' = calls \o << Call("token.NewGenerator", Empty),
                                  Call("token.GetWithOptions", cfg.ClusterName) >>
          /\ \/ CallFail("token.GetWithOptions", Err("failed to generate auth token")) /\ UNCHANGED token
             \/ token' = "iam" /\ pc' = "EKSnewClientset" /\ UNCHANGED <<err, failed>>
    /\ UNCHANGED <<outer, awsConfig, region, provider, env, cfg, attempts, cluster, caCert, k8sClient, handles, logged>>

\* kubernetes.NewForConfig (lines 236-250)
EKSnewClientset ==
    /\ provider = "aws" /\ pc = "EKSnewClientset"
    /\ calls' = Append(calls, Call("kubernetes.NewForConfig", Empty))
    /\ \/ CallFail("kubernetes.NewForConfig", Err("failed to create Kubernetes clientset")) /\ UNCHANGED k8sClient
       \/ /\ k8sClient' = Client(caCert, token, FALSE)
          /\ pc' = "connected"
          /\ UNCHANGED <<err, failed>>
    /\ UNCHANGED <<outer, awsConfig, region, provider, env, cfg, attempts, cluster, caCert, token, handles, logged>>

----------------------------------------------------------------------------
(* GCP: main.go (the GKE connector) *)

GCPDefaultZone == <<"us-central1">>

\* minimum length of a project ID accepted by validateConfig
MinProjectIDLen == 6

\* mutant: the length test is missing
validateConfig_NoMinLength(c) ==
    /\ c.ProjectID # Empty
    /\ ~Contains(c.ProjectID, " ")

\* validateConfig returns nil
validateConfig(c) ==
    /\ c.ProjectID # Empty
    /\ ~(Contains(c.ProjectID, " ") \/ Len(c.ProjectID) < MinProjectIDLen)

\* json.Unmarshal into a map returns nil; recognises the documents "{}" and "null"
JSONUnmarshalOK(bytes) == bytes \in { <<123, 125>>, <<110, 117, 108, 108>> }

\* mutant: the credentials file is looked at before the inline JSON
GCPCredentialSource_FileFirst(c) ==
    IF c.CredentialsPath # Empty THEN "file"
    ELSE IF Len(c.CredentialsJSON) > 0 THEN "json"
    ELSE "adc"

\* the branch initializeGCPClients takes
GCPCredentialSource(c) ==
    IF Len(c.CredentialsJSON) > 0 THEN "json"
    ELSE IF c.CredentialsPath # Empty THEN "file"
    ELSE "adc"

\* the client options appended for the selected source
GCPClientOptions(source) ==
    CASE source = "json" -> {"WithCredentialsJSON"}
      [] source = "file" -> {"WithCredentialsFile"}
      [] source = "adc"  -> {}

GKEStatuses == {"RUNNING", "PROVISIONING", "ERROR"}

GKEClusterRunning(status) == status = "RUNNING"

\* mutant: NewGKEClient returns the error and leaves the manager's clients open
GCPFail_NoClose(e) == /\ Fail(e)
                      /\ UNCHANGED handles

\* what a Close call the caller does not look at can have answered: nothing
\* wrong, or an error
CloseOutcomes(op) == { {}, {op} }

\* GCPClientManager.Close (lines 171-188) called with its result dropped: the
\* clients are released; ops are the calls that failed before it
CloseManager(ops) ==
    /\ handles' = {}
    /\ \E c \in CloseOutcomes("GCPClientManager.Close") : failed' = failed \cup ops \cup c

\* a failure after the client manager exists: NewGKEClient closes the manager
GCPFail(e) == /\ err' = e
              /\ pc' = "done"
              /\ CloseManager({})

\* the same, for the failure of the external call op
GCPCallFail(op, e) == /\ err' = e
                      /\ pc' = "done"
                      /\ CloseManager({op})

\* mutant: a value that cannot be decoded or parsed is treated as unset
CredentialsJSONError_Skipped(credentialsB64) == ""

\* the checks RunGCPTest makes on a set GCP_CREDENTIALS_JSON (lines 374-387):
\* the error message, "" when there is none
CredentialsJSONError(credentialsB64) ==
    IF credentialsB64 = Empty THEN ""
    ELSE IF ~B64Valid(credentialsB64) THEN "failed to decode GCP_CREDENTIALS_JSON"
    ELSE IF ~JSONUnmarshalOK(B64Decode(credentialsB64)) THEN "invalid JSON in GCP_CREDENTIALS_JSON"
    ELSE ""

RunGCPTest ==
    /\ provider = "gcp" /\ pc = "start" /\ entry = "run"
    /\ LET credentialsB64 == env["GCP_CREDENTIALS_JSON"]
       IN  IF env["GKE_CLUSTER_NAME"] = Empty
           THEN Fail(Err("GKE_CLUSTER_NAME environment variable is required")) /\ UNCHANGED cfg
           ELSE IF env["GOOGLE_CLOUD_PROJECT"] = Empty
           THEN Fail(Err("GOOGLE_CLOUD_PROJECT environment variable is required")) /\ UNCHANGED cfg
           ELSE IF CredentialsJSONError(credentialsB64) # ""
           THEN Fail(Err(CredentialsJSONError(credentialsB64))) /\ UNCHANGED cfg
           ELSE /\ cfg' = [ClusterName     |-> env["GKE_CLUSTER_NAME"],
                           ProjectID       |-> env["GOOGLE_CLOUD_PROJECT"],
                           Zone            |-> IF env["GKE_ZONE"] = Empty
                                               THEN GCPDefaultZone ELSE env["GKE_ZONE"],
                           CredentialsPath |-> env["GOOGLE_APPLICATION_CREDENTIALS"],
                           CredentialsJSON |-> IF credentialsB64 # Empty /\ B64Valid(credentialsB64)
                                                  /\ JSONUnmarshalOK(B64Decode(credentialsB64))
                                               THEN B64Decode(credentialsB64) ELSE Empty]
                /\ pc' = "initializeGCPClients"
                /\ UNCHANGED <<err, failed>>
    /\ UNCHANGED <<outer, awsConfig, region, provider, env, attempts, calls, cluster, caCert, token, k8sClient, handles, logged>>

\* NewGKEClient called by a program of its own (lines 197-203): the caller hands
\* over the values RunGCPTest would read, without RunGCPTest's checks and defaults
NewGKEClient ==
    /\ provider = "gcp" /\ pc = "start" /\ entry = "new"
    /\ cfg' = [ClusterName     |-> env["GKE_CLUSTER_NAME"],
               ProjectID       |-> env["GOOGLE_CLOUD_PROJECT"],
               Zone            |-> env["GKE_ZONE"],
               CredentialsPath |-> env["GOOGLE_APPLICATION_CREDENTIALS"],
               CredentialsJSON |-> Empty]
    /\ pc' = "initializeGCPClients"
    /\ UNCHANGED <<outer, awsConfig, region, provider, env, attempts, calls, cluster, caCert, token, k8sClient, handles, logged, err, failed>>

\* initializeGCPClients up to the creation of the GKE client (lines 86-109)
initializeGCPClients ==
    /\ provider = "gcp" /\ pc = "initializeGCPClients"
    /\ IF ~validateConfig(cfg)
       THEN /\ Fail(Err("configuration validation failed"))
            /\ UNCHANGED <<cfg, attempts, calls, handles>>
       ELSE LET c == [cfg EXCEPT !.Zone = IF @ = Empty THEN GCPDefaultZone ELSE @]
                source == GCPCredentialSource(c)
            IN  /\ cfg' = c
                /\ attempts' = Append(attempts, source)
                /\ calls' = Append(calls, Call("container.NewClusterManagerClient",
                                               GCPClientOptions(source)))
                /\ \/ CallFail("container.NewClusterManagerClient", Err("failed to create GKE client")) /\ UNCHANGED handles
                   \/ /\ handles' = handles \cup {"gkeClient"}
                      /\ pc' = "GCPnewStorageClient"
                      /\ UNCHANGED <<err, failed>>
    /\ UNCHANGED <<outer, awsConfig, region, provider, env, cluster, caCert, token, k8sClient, logged>>

\* mutant: the listing below the early return is executed
GCPvalidateCredentials_Listing(source) ==
    { [issued |-> << Call("storage.Buckets", source) >>, ok |-> b] : b \in BOOLEAN }

\* validateCredentials of the GCP client manager (lines 143-153): the outcomes
\* it can have, each with the calls it issues; its first statement returns nil
GCPvalidateCredentials(source) == { [issued |-> << >>, ok |-> TRUE] }

\* storage.NewClient and the call of validateCredentials (lines 111-126)
GCPnewStorageClient ==
    /\ provider = "gcp" /\ pc = "GCPnewStorageClient"
    /\ \/ /\ calls' = Append(calls, Call("storage.NewClient",
                                          GCPClientOptions(attempts[Len(attempts)])))
          /\ err' = Err("failed to create storage client")
          /\ pc' = "done"
          /\ handles' = handles \ {"gkeClient"}
          /\ \E c \in CloseOutcomes("gkeClient.Close") :
               failed' = failed \cup {"storage.NewClient"} \cup c
       \/ \E v \in GCPvalidateCredentials(attempts[Len(attempts)]) :
            /\ calls' = Append(calls, Call("storage.NewClient",
                                           GCPClientOptions(attempts[Len(attempts)]))) \o v.issued
            /\ handles' = handles \cup {"storageClient"}
            /\ IF v.ok THEN pc' = "GKEinitKubernetesClient" /\ UNCHANGED <<err, failed>>
               ELSE CallFail("storage.Buckets", Err("credential validation failed"))
    /\ UNCHANGED <<outer, awsConfig, region, provider, env, cfg, attempts, cluster, caCert, token, k8sClient, logged>>

\* initKubernetesClient: get cluster, readiness check, CA decoding (lines 219-243)
GKEinitKubernetesClient ==
    /\ provider = "gcp" /\ pc = "GKEinitKubernetesClient"
    /\ calls' = Append(calls, Call("gke.GetCluster", cfg.ClusterName))
    /\ \/ /\ GCPCallFail("gke.GetCluster", Err("failed to get GKE cluster"))
          /\ UNCHANGED <<cluster, caCert>>
       \/ \E d \in Descriptors(GKEStatuses, "RUNNING") :
            /\ cluster' = d
            /\ IF ~GKEClusterRunning(d.status)
               THEN /\ GCPFail(ErrStatus("cluster is not running, current status", d.status))
                    /\ UNCHANGED caCert
               ELSE IF CADecodeFails(d.ca)
               THEN /\ GCPFail(Err("failed to decode certificate authority data"))
                    /\ UNCHANGED caCert
               ELSE /\ caCert' = B64Decode(d.ca)
                    /\ pc' = "GKEgetToken"
                    /\ UNCHANGED <<err, handles, failed>>
    /\ UNCHANGED <<outer, awsConfig, region, provider, env, cfg, attempts, token, k8sClient, logged>>

\* where google.FindDefaultCredentials takes the credentials from: the file
\* GOOGLE_APPLICATION_CREDENTIALS names when that is set, else the rest of the
\* default chain; the GCPConfig of the manager plays no part (line 246)
FindDefaultCredentials(e) ==
    IF e["GOOGLE_APPLICATION_CREDENTIALS"] # Empty THEN "file" ELSE "adc"

\* google.FindDefaultCredentials and tokenSource.Token (lines 245-258)
GKEgetToken ==
    /\ provider = "gcp" /\ pc = "GKEgetToken"
    /\ \/ /\ calls' = Append(calls, Call("google.FindDefaultCredentials", Empty))
          /\ GCPCallFail("google.FindDefaultCredentials", Err("failed to get Google Cloud credentials"))
          /\ UNCHANGED token
       \/ /\ calls' = calls \o << Call("google.FindDefaultCredentials", Empty),
                                  Call("tokenSource.Token", FindDefaultCredentials(env)) >>
          /\ \/ GCPCallFail("tokenSource.Token", Err("failed to get access token")) /\ UNCHANGED token
             \/ token' = FindDefaultCredentials(env) /\ pc' = "GKEnewClientset" /\ UNCHANGED <<err, handles, failed>>
    /\ UNCHANGED <<outer, awsConfig, region, provider, env, cfg, attempts, cluster, caCert, k8sClient, logged>>

\* kubernetes.NewForConfig (lines 260-276)
GKEnewClientset ==
    /\ provider = "gcp" /\ pc = "GKEnewClientset"
    /\ calls' = Append(calls, Call("kubernetes.NewForConfig", Empty))
    /\ \/ GCPCallFail("kubernetes.NewForConfig", Err("failed to create Kubernetes clientset")) /\ UNCHANGED k8sClient
       \/ /\ k8sClient' = Client(caCert, token, FALSE)
          /\ pc' = "connected"
          /\ UNCHANGED <<err, handles, failed>>
    /\ UNCHANGED <<outer, awsConfig, region, provider, env, cfg, attempts, cluster, caCert, token, logged>>

----------------------------------------------------------------------------
(* Azure: aks.go *)

AKSDefaultClusterName == <<"my-aks-cluster">>

\* mutant: the managed-identity flag is looked at before the service principal
AzureCredentialSource_MSIFirst(e) ==
    IF e["AZURE_USE_MSI"] = StrTrue THEN "managed-identity"
    ELSE IF e["AZURE_CLIENT_ID"] # Empty /\ e["AZURE_CLIENT_SECRET"] # Empty /\ e["AZURE_TENANT_ID"] # Empty
    THEN "service-principal"
    ELSE "cli"

\* mutant: managed identity unless the flag is set to something else
AzureCredentialSource_MSIDefault(e) ==
    IF e["AZURE_CLIENT_ID"] # Empty /\ e["AZURE_CLIENT_SECRET"] # Empty /\ e["AZURE_TENANT_ID"] # Empty
    THEN "service-principal"
    ELSE IF e["AZURE_USE_MSI"] \in {Empty, StrTrue} THEN "managed-identity"
    ELSE "cli"

\* the branch createAzureCredential takes
AzureCredentialSource(e) ==
    IF e["AZURE_CLIENT_ID"] # Empty /\ e["AZURE_CLIENT_SECRET"] # Empty /\ e["AZURE_TENANT_ID"] # Empty
    THEN "service-principal"
    ELSE IF e["AZURE_USE_MSI"] = StrTrue THEN "managed-identity"
    ELSE "cli"

\* power state codes of a managed cluster; "" stands for a nil PowerState or Code
AKSPowerStates == {"", "Running", "Stopped"}

AKSClusterRunning(status) == status = "Running"

\* managed cluster descriptors ARM may return: Properties nil or not, power
\* state, FQDN nil or not
AKSClusters ==
    { d \in [props : BOOLEAN, status : AKSPowerStates, fqdn : BOOLEAN, ca : {Empty}] :
        ~d.props => (d.status = "" /\ ~d.fqdn) }

\* CA data of the cluster entries of a kubeconfig
KubeconfigCAs == {Empty, <<1>>, <<2>>}

\* answers of ListClusterUserCredentials: an error, no kubeconfig, a kubeconfig
\* with a nil value, or a kubeconfig document (that parses or not, with the CA
\* data of its cluster entries)
CredentialAnswers ==
    { a \in [kind : {"error", "empty", "nil", "kubeconfig"}, parses : BOOLEAN,
             cas : SUBSET KubeconfigCAs] :
        a.kind # "kubeconfig" => (~a.parses /\ a.cas = {}) }

\* extractCACertFromKubeconfig: the CA values it may return (the clusters are
\* a map, ranged over in no fixed order); empty when it returns an error
extractCACertFromKubeconfig(a) ==
    IF a.parses THEN {ca \in a.cas : Len(ca) > 0} ELSE {}

\* getClusterCACertificate: the CA values it may return for answer a of
\* ListClusterUserCredentials; empty when it returns an error
getClusterCACertificate(a) ==
    IF a.kind = "kubeconfig" THEN extractCACertFromKubeconfig(a) ELSE {}

\* mutant: the subscription is not checked before the client is created
RunAKSTest_NoSubscriptionCheck ==
    /\ provider = "azure" /\ pc = "start" /\ entry = "run"
    /\ IF env["AZURE_RESOURCE_GROUP"] = Empty
       THEN Fail(Err("AZURE_RESOURCE_GROUP environment variable must be set")) /\ UNCHANGED cfg
       ELSE /\ cfg' = [ClusterName    |-> IF env["AKS_CLUSTER_NAME"] = Empty
                                          THEN AKSDefaultClusterName ELSE env["AKS_CLUSTER_NAME"],
                       ResourceGroup  |-> env["AZURE_RESOURCE_GROUP"],
                       SubscriptionID |-> env["AZURE_SUBSCRIPTION_ID"]]
            /\ pc' = "createAzureCredential"
            /\ UNCHANGED <<err, failed>>
    /\ UNCHANGED <<outer, awsConfig, region, provider, env, attempts, calls, cluster, caCert, token, k8sClient, handles, logged>>

RunAKSTest ==
    /\ provider = "azure" /\ pc = "start" /\ entry = "run"
    /\ IF env["AZURE_RESOURCE_GROUP"] = Empty
       THEN Fail(Err("AZURE_RESOURCE_GROUP environment variable must be set")) /\ UNCHANGED cfg
       ELSE IF env["AZURE_SUBSCRIPTION_ID"] = Empty
       THEN Fail(Err("AZURE_SUBSCRIPTION_ID environment variable must be set")) /\ UNCHANGED cfg
       ELSE /\ cfg' = [ClusterName    |-> IF env["AKS_CLUSTER_NAME"] = Empty
                                          THEN AKSDefaultClusterName ELSE env["AKS_CLUSTER_NAME"],
                       ResourceGroup  |-> env["AZURE_RESOURCE_GROUP"],
                       SubscriptionID |-> env["AZURE_SUBSCRIPTION_ID"]]
            /\ pc' = "createAzureCredential"
            /\ UNCHANGED <<err, failed>>
    /\ UNCHANGED <<outer, awsConfig, region, provider, env, attempts, calls, cluster, caCert, token, k8sClient, handles, logged>>

\* createAzureCredential (lines 61-96)
createAzureCredential ==
    /\ provider = "azure" /\ pc = "createAzureCredential"
    /\ LET source == AzureCredentialSource(env)
       IN  /\ attempts' = Append(attempts, source)
           /\ calls' = Append(calls, Call("azidentity.NewCredential", source))
           /\ \/ CallFail("azidentity.NewCredential", Err("failed to create Azure credential"))
              \/ pc' = "NewManagedClustersClient" /\ UNCHANGED <<err, failed>>
    /\ UNCHANGED <<outer, awsConfig, region, provider, env, cfg, cluster, caCert, token, k8sClient, handles, logged>>

\* armcontainerservice.NewManagedClustersClient (lines 38-50)
NewManagedClustersClient ==
    /\ provider = "azure" /\ pc = "NewManagedClustersClient"
    /\ calls' = Append(calls, Call("armcontainerservice.NewManagedClustersClient", cfg.SubscriptionID))
    /\ \/ CallFail("armcontainerservice.NewManagedClustersClient", Err("failed to create AKS client"))
       \/ pc' = "AKSinitKubernetesClient" /\ UNCHANGED <<err, failed>>
    /\ UNCHANGED <<outer, awsConfig, region, provider, env, cfg, attempts, cluster, caCert, token, k8sClient, handles, logged>>

\* initKubernetesClient and the FQDN check of initKubernetesClientWithAzureAD
\* (lines 185-208, 100-102)
AKSinitKubernetesClient ==
    /\ provider = "azure" /\ pc = "AKSinitKubernetesClient"
    /\ calls' = Append(calls, Call("aks.Get", cfg.ClusterName))
    /\ \/ /\ CallFail("aks.Get", Err("failed to get AKS cluster"))
          /\ UNCHANGED cluster
       \/ \E d \in AKSClusters :
            /\ cluster' = d
            /\ IF ~d.props
               THEN Fail(Err("cluster properties are nil"))
               ELSE IF d.status = ""
               THEN Fail(ErrStatus("cluster power state is unknown", "unknown"))
               ELSE IF ~AKSClusterRunning(d.status)
               THEN Fail(ErrStatus("cluster is not running, current status", d.status))
               ELSE IF ~d.fqdn
               THEN Fail(Err("cluster FQDN is not available"))
               ELSE pc' = "getAzureADToken" /\ UNCHANGED <<err, failed>>
    /\ UNCHANGED <<outer, awsConfig, region, provider, env, cfg, attempts, caCert, token, k8sClient, handles, logged>>

\* getAzureADToken (lines 105-108, 138-151)
getAzureADToken ==
    /\ provider = "azure" /\ pc = "getAzureADToken"
    /\ calls' = Append(calls, Call("credential.GetToken", attempts[Len(attempts)]))
    /\ \/ CallFail("credential.GetToken", Err("failed to get Azure AD token")) /\ UNCHANGED token
       \/ /\ token' = attempts[Len(attempts)]
          /\ pc' = "getClusterCACertificate"
          /\ UNCHANGED <<err, failed>>
    /\ UNCHANGED <<outer, awsConfig, region, provider, env, cfg, attempts, cluster, caCert, k8sClient, handles, logged>>

\* the call of getClusterCACertificate in initKubernetesClientWithAzureAD
\* (lines 110-114, 154-164)
AKSgetClusterCACertificate ==
    /\ provider = "azure" /\ pc = "getClusterCACertificate"
    /\ calls' = Append(calls, Call("aks.ListClusterUserCredentials", cfg.ClusterName))
    /\ \E a \in CredentialAnswers :
         IF getClusterCACertificate(a) = {}
         THEN /\ IF a.kind = "error"
                 THEN CallFail("aks.ListClusterUserCredentials",
                               Err("no CA certificate found in cluster credentials"))
                 ELSE Fail(Err("no CA certificate found in cluster credentials"))
              /\ UNCHANGED caCert
         ELSE /\ caCert' \in getClusterCACertificate(a)
              /\ pc' = "AKSnewClientset"
              /\ UNCHANGED <<err, failed>>
    /\ UNCHANGED <<outer, awsConfig, region, provider, env, cfg, attempts, cluster, token, k8sClient, handles, logged>>

\* mutant: the clientset error is dropped and the client is handed out without
\* a session handle
AKSnewClientset_ErrorIgnored ==
    /\ provider = "azure" /\ pc = "AKSnewClientset"
    /\ calls' = Append(calls, Call("kubernetes.NewForConfig", Empty))
    /\ \/ /\ failed' = failed \cup {"kubernetes.NewForConfig"}
          /\ UNCHANGED k8sClient
       \/ /\ k8sClient' = Client(caCert, token, FALSE)
          /\ UNCHANGED failed
    /\ pc' = "connected"
    /\ UNCHANGED <<outer, awsConfig, region, provider, env, cfg, attempts, cluster, caCert, token, handles, logged, err>>

\* kubernetes.NewForConfig in initKubernetesClientWithAzureAD (lines 116-134)
AKSnewClientset ==
    /\ provider = "azure" /\ pc = "AKSnewClientset"
    /\ calls' = Append(calls, Call("kubernetes.NewForConfig", Empty))
    /\ \/ CallFail("kubernetes.NewForConfig", Err("failed to create Kubernetes clientset")) /\ UNCHANGED k8sClient
       \/ /\ k8sClient' = Client(caCert, token, FALSE)
          /\ pc' = "connected"
          /\ UNCHANGED <<err, failed>>
    /\ UNCHANGED <<outer, awsConfig, region, provider, env, cfg, attempts, cluster, caCert, token, handles, logged>>

----------------------------------------------------------------------------
(* Post-connection calls of the Run*Test functions *)

\* the calls each connector issues once connected, in order
PostCalls(p) ==
    CASE p = "aws"   -> << "sts.GetCallerIdentity", "eks.DescribeCluster", "pods.List" >>
      [] p = "gcp"   -> << "gke.GetCluster", "pods.List" >>
      [] p = "azure" -> << "aks.Get", "pods.List" >>

\* mutant: the first post-connection call that fails is returned as the
\* connector's error and the calls after it are not made
PostConnect_AbortOnFailure ==
    /\ pc = "connected"
    /\ \E n \in 1..Len(PostCalls(provider)), bad \in BOOLEAN :
         /\ bad \/ n = Len(PostCalls(provider))
         /\ calls' = calls \o [i \in 1..n |-> Call(PostCalls(provider)[i], "post")]
         /\ err' = IF bad THEN Err("post-connection call failed") ELSE NoErr
    /\ logged' = {}
    /\ handles' = {}
    /\ pc' = "done"
    /\ UNCHANGED <<outer, awsConfig, region, failed, provider, env, cfg, attempts, cluster, caCert, token, k8sClient>>

\* eks.go 338-357, main.go 405-425, aks.go 320-334: every call is issued, a
\* failure is logged, the connector returns nil; RunGCPTest's deferred Close
\* releases the GCP handles
PostConnect ==
    /\ pc = "connected"
    /\ calls' = calls \o [i \in 1..Len(PostCalls(provider)) |-> Call(PostCalls(provider)[i], "post")]
    /\ \E bad \in SUBSET {PostCalls(provider)[i] : i \in 1..Len(PostCalls(provider))} :
         logged' = bad
    /\ IF provider = "gcp" THEN CloseManager({}) ELSE UNCHANGED <<handles, failed>>
    /\ pc' = "done"
    /\ UNCHANGED <<outer, awsConfig, region, provider, env, cfg, attempts, cluster, caCert, token, k8sClient, err>>

----------------------------------------------------------------------------
(* Environments of a run *)

\* project IDs: runs of "a" of every length up to MaxIdLen, the same ending in
\* a space or a tab, and the documented examples
MyProject1 == <<"m","y","-","p","r","o","j","e","c","t","-","1">>
MySpaceProject == <<"m","y"," ","p","r","o","j","e","c","t">>
ProjectIDs ==
    {Rep("a", n) : n \in 0..MaxIdLen}
    \cup {Append(Rep("a", n - 1), c) : n \in 1..MaxIdLen, c \in {" ", "\t"}}
    \cup {<<"a", "b">>, MySpaceProject, MyProject1}

\* GCP_CREDENTIALS_JSON: unset, base64 of "{}", a broken encoding of it,
\* base64 of three zero bytes
CredentialsB64 == {Empty, <<"e","3","0","=">>, <<"e","3","0">>, <<"A","A","A","A">>}

GCPEnvs ==
    { [NoEnv EXCEPT !["GKE_CLUSTER_NAME"] = n, !["GOOGLE_CLOUD_PROJECT"] = p, !["GKE_ZONE"] = z,
                    !["GOOGLE_APPLICATION_CREDENTIALS"] = f, !["GCP_CREDENTIALS_JSON"] = j] :
        n \in Opt, p \in ProjectIDs, z \in Opt, f \in Opt, j \in CredentialsB64 }

AzureEnvs ==
    { [NoEnv EXCEPT !["AKS_CLUSTER_NAME"] = n, !["AZURE_RESOURCE_GROUP"] = g,
                    !["AZURE_SUBSCRIPTION_ID"] = s, !["AZURE_CLIENT_ID"] = c,
                    !["AZURE_CLIENT_SECRET"] = k, !["AZURE_TENANT_ID"] = t,
                    !["AZURE_USE_MSI"] = m] :
        n \in Opt, g \in Opt, s \in Opt, c \in Opt, k \in Opt, t \in Opt,
        m \in {Empty, StrTrue, Set} }

Envs(p) ==
    CASE p = "aws"   -> AWSEnvs
      [] p = "gcp"   -> GCPEnvs
      [] p = "azure" -> AzureEnvs

----------------------------------------------------------------------------

\* what a program passes to NewEKSClient / NewGKEClient on its own: a cluster
\* name, a project, a location or none, no credential setting
NewEnvs(p) ==
    CASE p = "aws" -> { [NoEnv EXCEPT !["EKS_CLUSTER_NAME"] = Set, !["AWS_REGION"] = r] : r \in Opt }
      [] p = "gcp" -> { [NoEnv EXCEPT !["GKE_CLUSTER_NAME"] = Set, !["GOOGLE_CLOUD_PROJECT"] = MyProject1,
                                      !["GKE_ZONE"] = z] : z \in Opt }

\* environments of a whole process: which of the variables the connectors
\* require are set
MainEnvs ==
    { [NoEnv EXCEPT !["EKS_CLUSTER_NAME"] = e, !["GKE_CLUSTER_NAME"] = g,
                    !["GOOGLE_CLOUD_PROJECT"] = p, !["AZURE_RESOURCE_GROUP"] = r,
                    !["AZURE_SUBSCRIPTION_ID"] = s] :
        e \in Opt, g \in Opt, p \in {Empty, MyProject1}, r \in Opt, s \in Opt }

\* command lines: no argument, or the name of a provider
Argvs == { << >>, << "aws" >>, << "gcp" >> }

----------------------------------------------------------------------------
(* The main functions *)

\* the two main functions of the repository
Programs == {"main.go", "unnamed/part_001"}

\* the connectors a main function calls, in order: src/main.go calls
\* RunAKSTest, RunGKETest, RunEKSTest; unnamed/part_001 calls RunGCPTest.
\* RunGKETest is taken to be the GKE connector of the sources, RunGCPTest.
Order(prog) ==
    CASE prog = "main.go"      -> << "azure", "gcp", "aws" >>
      [] prog = "unnamed/part_001" -> << "gcp" >>

\* a connector that has not started
Fresh ==
    /\ cfg = [ClusterName |-> Empty]
    /\ attempts = << >>
    /\ calls = << >>
    /\ cluster = NoCluster
    /\ caCert = Empty
    /\ token = "none"
    /\ k8sClient = NoClient
    /\ handles = {}
    /\ logged = {}
    /\ err = NoErr
    /\ awsConfig = "none"
    /\ region = Empty
    /\ failed = {}

\* main calls its next connector; the call starts with fresh locals
mainCall ==
    /\ program \in Programs /\ pc = "main"
    /\ Len(results) < Len(Order(program))
    /\ provider' = Order(program)[Len(results) + 1]
    /\ pc' = "start"
    /\ cfg' = [ClusterName |-> Empty]
    /\ attempts' = << >>
    /\ calls' = << >>
    /\ cluster' = NoCluster
    /\ caCert' = Empty
    /\ token' = "none"
    /\ k8sClient' = NoClient
    /\ handles' = {}
    /\ logged' = {}
    /\ err' = NoErr
    /\ awsConfig' = "none"
    /\ region' = Empty
    /\ failed' = {}
    /\ UNCHANGED <<outer, env>>

\* mutant: the error of a connector is logged and main goes on
mainReturn_Continue ==
    /\ program \in Programs /\ pc = "done"
    /\ results' = Append(results, [connector |-> provider, err |-> err])
    /\ IF Len(results') = Len(Order(program))
       THEN exitCode' = (IF \E i \in 1..Len(results') : results'[i].err # NoErr THEN 1 ELSE 0)
            /\ pc' = "exit"
       ELSE pc' = "main" /\ UNCHANGED exitCode
    /\ UNCHANGED <<entry, program, argv, provider, env, cfg, attempts, calls, cluster, caCert, token,
                   k8sClient, handles, logged, err, awsConfig, region, failed>>

\* the connector returns to main: log.Fatalf on an error, else the next
\* call, and exit status 0 after the last one
mainReturn ==
    /\ program \in Programs /\ pc = "done"
    /\ results' = Append(results, [connector |-> provider, err |-> err])
    /\ IF err # NoErr
       THEN exitCode' = 1 /\ pc' = "exit"
       ELSE IF Len(results') = Len(Order(program))
       THEN exitCode' = 0 /\ pc' = "exit"
       ELSE pc' = "main" /\ UNCHANGED exitCode
    /\ UNCHANGED <<entry, program, argv, provider, env, cfg, attempts, calls, cluster, caCert, token,
                   k8sClient, handles, logged, err, awsConfig, region, failed>>

----------------------------------------------------------------------------

Init ==
    /\ provider \in {"aws", "gcp", "azure"}
    /\ \/ entry = "run" /\ env \in Envs(provider)
       \/ entry = "new" /\ provider \in {"aws", "gcp"} /\ env \in NewEnvs(provider)
    /\ pc = "start"
    /\ Fresh
    /\ program = "none"
    /\ argv = << >>
    /\ results = << >>
    /\ exitCode = -1

\* a process: one of the main functions, a command line, an environment
MainInit ==
    /\ program \in Programs
    /\ argv \in Argvs
    /\ env \in MainEnvs
    /\ entry = "run"
    /\ provider = "none"
    /\ pc = "main"
    /\ Fresh
    /\ results = << >>
    /\ exitCode = -1

Next ==
    \/ RunEKSTest
    \/ NewEKSClient
    \/ initializeAWSConfig
    \/ AWSvalidateCredentials
    \/ EKSinitKubernetesClient
    \/ EKSgetToken
    \/ EKSnewClientset
    \/ RunGCPTest
    \/ NewGKEClient
    \/ initializeGCPClients
    \/ GCPnewStorageClient
    \/ GKEinitKubernetesClient
    \/ GKEgetToken
    \/ GKEnewClientset
    \/ RunAKSTest
    \/ createAzureCredential
    \/ NewManagedClustersClient
    \/ AKSinitKubernetesClient
    \/ getAzureADToken
    \/ AKSgetClusterCACertificate
    \/ AKSnewClientset
    \/ PostConnect

Spec == Init /\ [][Next]_vars

\* a process run by one of the main functions
MainNext ==
    \/ mainCall
    \/ mainReturn
    \/ RunAKSTest
    \/ createAzureCredential
    \/ NewManagedClustersClient
    \/ AKSinitKubernetesClient
    \/ getAzureADToken
    \/ AKSgetClusterCACertificate
    \/ AKSnewClientset
    \/ RunGCPTest
    \/ initializeGCPClients
    \/ GCPnewStorageClient
    \/ GKEinitKubernetesClient
    \/ GKEgetToken
    \/ GKEnewClientset
    \/ RunEKSTest
    \/ initializeAWSConfig
    \/ AWSvalidateCredentials
    \/ EKSinitKubernetesClient
    \/ EKSgetToken
    \/ EKSnewClientset
    \/ PostConnect

SpecMain == MainInit /\ [][MainNext]_vars


----------------------------------------------------------------------------
(* Properties *)

\* positions of the calls of operation op
CallsOf(op) == {i \in 1..Len(calls) : calls[i].op = op}

\* the value of the status field that lets the session build go on
RunningValue(p) ==
    CASE p = "aws" -> "ACTIVE" [] p = "gcp" -> "RUNNING" [] p = "azure" -> "Running"

Fetched == cluster.status # "none"

\* calls that acquire the bearer token, extract the CA or build the clientset
SessionOps ==
    {"token.NewGenerator", "token.GetWithOptions", "google.FindDefaultCredentials",
     "tokenSource.Token", "credential.GetToken", "aks.ListClusterUserCredentials",
     "kubernetes.NewForConfig"}

\* C1: a descriptor whose status is not the provider's running value (a missing
\* AKS power state included) never leads to a session: the build has failed at
\* the readiness check with the observed status in the error ("unknown" or the
\* nil properties for a missing one), and no token was acquired, no CA
\* extracted, no clientset built.
C1_NotRunningNeverYieldsSession ==
    /\ k8sClient.set => (Fetched /\ cluster.status = RunningValue(provider))
    /\ (Fetched /\ cluster.status # RunningValue(provider)) =>
        /\ pc = "done"
        /\ ~k8sClient.set
        /\ IF cluster.status = ""
           THEN err.msg \in {"cluster properties are nil", "cluster power state is unknown"}
           ELSE /\ err.msg \in {"cluster is not active, current status",
                                "cluster is not running, current status"}
                /\ err.status = cluster.status
        /\ Ops \cap SessionOps = {}
        /\ token = "none" /\ caCert = Empty

C1_Witness ==
    /\ provider = "azure" /\ cluster.status = "Stopped" /\ pc = "done"
    /\ env["AZURE_CLIENT_ID"] # Empty /\ env["AZURE_CLIENT_SECRET"] # Empty
    /\ env["AZURE_TENANT_ID"] # Empty

AWSStaticPair == env["AWS_ACCESS_KEY_ID"] # Empty /\ env["AWS_SECRET_ACCESS_KEY"] # Empty

\* C2: the AWS source tried is the static keys exactly when both keys are set
\* (the profile is then not handed to the loader), the profile exactly when the
\* pair is incomplete and a profile is set, the default chain otherwise; one
\* source per configuration.
C2_AWSSourceSelection ==
    (provider = "aws" /\ attempts # << >>) =>
        /\ Len(attempts) = 1
        /\ (attempts[1] = "static") <=> AWSStaticPair
        /\ (attempts[1] = "profile") <=> (~AWSStaticPair /\ env["AWS_PROFILE"] # Empty)
        /\ (attempts[1] = "default") <=> (~AWSStaticPair /\ env["AWS_PROFILE"] = Empty)
        /\ \A i \in CallsOf("config.LoadDefaultConfig") :
             /\ AWSStaticPair => "Profile" \notin calls[i].arg
             /\ ("AccessKey" \in calls[i].arg) <=> AWSStaticPair
             /\ ("Profile" \in calls[i].arg) <=> (attempts[1] = "profile")

C2_Witness ==
    /\ provider = "aws" /\ attempts = <<"static">> /\ env["AWS_PROFILE"] # Empty
    /\ CallsOf("config.LoadDefaultConfig") # {}

\* the inline service-account JSON decoded from GCP_CREDENTIALS_JSON
GCPInlineJSON ==
    IF env["GCP_CREDENTIALS_JSON"] = Empty THEN Empty ELSE B64Decode(env["GCP_CREDENTIALS_JSON"])

GCPClientOps == {"container.NewClusterManagerClient", "storage.NewClient"}

\* C3: the GCP source is the inline JSON whenever it is non-empty, the
\* credentials file only when the inline JSON is empty and the path is set,
\* application-default credentials otherwise; both GCP clients get the option
\* of that one source and no other.
C3_GCPSourceSelection ==
    (provider = "gcp" /\ attempts # << >>) =>
        /\ Len(attempts) = 1
        /\ (attempts[1] = "json") <=> (GCPInlineJSON # Empty)
        /\ (attempts[1] = "file") <=>
               (GCPInlineJSON = Empty /\ env["GOOGLE_APPLICATION_CREDENTIALS"] # Empty)
        /\ (attempts[1] = "adc") <=>
               (GCPInlineJSON = Empty /\ env["GOOGLE_APPLICATION_CREDENTIALS"] = Empty)
        /\ \A i \in 1..Len(calls) : calls[i].op \in GCPClientOps =>
             calls[i].arg = (CASE attempts[1] = "json" -> {"WithCredentialsJSON"}
                               [] attempts[1] = "file" -> {"WithCredentialsFile"}
                               [] attempts[1] = "adc"  -> {})

C3_Witness ==
    /\ provider = "gcp" /\ attempts = <<"json">>
    /\ env["GOOGLE_APPLICATION_CREDENTIALS"] # Empty
    /\ Issued("storage.NewClient")

AzureTriple ==
    env["AZURE_CLIENT_ID"] # Empty /\ env["AZURE_CLIENT_SECRET"] # Empty /\ env["AZURE_TENANT_ID"] # Empty

\* C4: the Azure source is the service principal exactly when the triple is
\* complete (whatever the managed-identity flag), managed identity exactly when
\* it is incomplete and AZURE_USE_MSI is "true", the CLI credential otherwise;
\* one source per environment, and a credential error only comes from the
\* constructor of the selected source.
C4_AzureSourceSelection ==
    (provider = "azure" /\ pc \notin {"start", "createAzureCredential"}
                        /\ env["AZURE_RESOURCE_GROUP"] # Empty
                        /\ env["AZURE_SUBSCRIPTION_ID"] # Empty) =>
        /\ Len(attempts) = 1
        /\ Cardinality(CallsOf("azidentity.NewCredential")) = 1
        /\ (attempts[1] = "service-principal") <=> AzureTriple
        /\ (attempts[1] = "managed-identity") <=> (~AzureTriple /\ env["AZURE_USE_MSI"] = StrTrue)
        /\ (attempts[1] = "cli") <=> (~AzureTriple /\ env["AZURE_USE_MSI"] # StrTrue)
        /\ \A i \in CallsOf("azidentity.NewCredential") : calls[i].arg = attempts[1]

C4_Witness ==
    /\ provider = "azure" /\ attempts = <<"service-principal">>
    /\ env["AZURE_USE_MSI"] = StrTrue
    /\ pc = "NewManagedClustersClient"

\* no credential-selecting variable of the provider is set
NoCredentialVars ==
    CASE provider = "aws" ->
           \A v \in {"AWS_ACCESS_KEY_ID", "AWS_SECRET_ACCESS_KEY", "AWS_SESSION_TOKEN", "AWS_PROFILE"} :
              env[v] = Empty
      [] provider = "gcp" ->
           \A v \in {"GCP_CREDENTIALS_JSON", "GOOGLE_APPLICATION_CREDENTIALS"} : env[v] = Empty
      [] provider = "azure" ->
           \A v \in {"AZURE_CLIENT_ID", "AZURE_CLIENT_SECRET", "AZURE_TENANT_ID", "AZURE_USE_MSI"} :
              env[v] = Empty

LowestSource(p) ==
    CASE p = "aws" -> "default" [] p = "gcp" -> "adc" [] p = "azure" -> "cli"

\* C5: with no credential-selecting variable set, the only source the resolver
\* tries is the provider's lowest-priority one.
C5_NothingSetSelectsLowest ==
    (NoCredentialVars /\ attempts # << >>) => attempts = << LowestSource(provider) >>

C5_Witness ==
    /\ NoCredentialVars /\ provider = "azure" /\ attempts = <<"cli">>
    /\ Issued("azidentity.NewCredential")

\* errors of the credential resolvers: the selected source failed to construct
\* or failed its validation
ResolutionErrors ==
    {"failed to load AWS configuration", "failed to validate AWS credentials",
     "incomplete AWS caller identity information", "failed to create GKE client",
     "failed to create storage client", "failed to create Azure credential"}

\* calls that construct a credential source
SourceOps == {"config.LoadDefaultConfig", "azidentity.NewCredential"}

\* C6: one resolution tries one source: at most one source is attempted and
\* constructed, and when it fails to construct or to validate the connector
\* has stopped with that error, without a session and without a second source.
C6_OneSourceNoRetry ==
    /\ Len(attempts) <= 1
    /\ Cardinality({i \in 1..Len(calls) : calls[i].op \in SourceOps}) <= 1
    /\ err.msg \in ResolutionErrors =>
         /\ pc = "done"
         /\ Len(attempts) = 1
         /\ ~k8sClient.set
         /\ token = "none"

C6_Witness ==
    /\ provider = "aws" /\ pc = "done" /\ err.msg = "failed to load AWS configuration"
    /\ attempts = <<"static">> /\ env["AWS_PROFILE"] # Empty

\* C7 (as claimed): the user kubeconfig credentials are requested only after
\* the admin kubeconfig credentials have been requested (and yielded no CA).
C7_UserOnlyAfterAdmin ==
    \A i \in CallsOf("aks.ListClusterUserCredentials") :
        \E j \in 1..(i - 1) : calls[j].op = "aks.ListClusterAdminCredentials"

\* C8 (as claimed): with a running cluster and the Azure AD token obtained, a
\* CA extraction that yields nothing does not fail the session build: the
\* session is built, flagged insecure.
C8_MissingCAFallsBackToInsecure ==
    (provider = "azure" /\ token # "none" /\ Issued("aks.ListClusterUserCredentials")
                        /\ caCert = Empty) =>
        /\ err.msg \in {"", "failed to create Kubernetes clientset"}
        /\ k8sClient.set => k8sClient.insecure
        /\ (pc = "done" /\ err = NoErr) => (k8sClient.set /\ k8sClient.insecure)

\* a CA field that is not standard base64: after line breaks are dropped, its
\* length is not a multiple of four, or it holds a character outside the
\* alphabet, or padding anywhere but at its end
MalformedCA(s) ==
    LET t == SelectSeq(s, LAMBDA c : c # "\n" /\ c # "\r")
        n == Len(t)
    IN  \/ n % 4 # 0
        \/ \E i \in 1..n : t[i] \notin (B64Chars \cup {"="})
        \/ \E i \in 1..(n - 2) : t[i] = "="
        \/ (n >= 2 /\ t[n - 1] = "=" /\ t[n] # "=")

\* C9: on AWS and GCP a running cluster whose CA field is malformed base64
\* fails the session build with the decoding error, before any token or
\* clientset call; every session built carries the decoded CA of a well-formed
\* field and is never flagged insecure.
C9_MalformedCAFailsSession ==
    provider \in {"aws", "gcp"} =>
        /\ (Fetched /\ cluster.status = RunningValue(provider) /\ MalformedCA(cluster.ca)) =>
             /\ pc = "done"
             /\ err.msg = "failed to decode certificate authority data"
             /\ ~k8sClient.set
             /\ Ops \cap SessionOps = {}
        /\ k8sClient.set =>
             /\ ~k8sClient.insecure
             /\ ~MalformedCA(cluster.ca)
             /\ k8sClient.ca = caCert

C9_Witness ==
    /\ provider = "gcp" /\ cluster.status = "RUNNING" /\ cluster.ca = <<"A", "A", "A">>
    /\ pc = "done" /\ handles = {}

\* errors RunGCPTest and validateConfig return for a bad input
GCPConfigErrors ==
    {"GKE_CLUSTER_NAME environment variable is required",
     "GOOGLE_CLOUD_PROJECT environment variable is required",
     "failed to decode GCP_CREDENTIALS_JSON", "invalid JSON in GCP_CREDENTIALS_JSON",
     "configuration validation failed"}

Whitespace == {" ", "\t", "\n", "\r"}

\* no GCP client has been created and no call issued; a finished run ended in a
\* configuration error
RejectedBeforeAnyCall ==
    /\ calls = << >> /\ handles = {}
    /\ pc \in {"start", "initializeGCPClients", "done"}
    /\ pc = "done" => err.msg \in GCPConfigErrors

\* C10 (as claimed): a project ID that is empty, holds any whitespace or is
\* shorter than the minimum is rejected before any GCP client or call.
C10_AnyWhitespaceRejected ==
    LET pid == env["GOOGLE_CLOUD_PROJECT"]
    IN  (provider = "gcp" /\ (\/ pid = Empty
                              \/ \E i \in 1..Len(pid) : pid[i] \in Whitespace
                              \/ Len(pid) < MinProjectIDLen)) => RejectedBeforeAnyCall

\* C10 (amended): a project ID that is empty, holds a space character or is
\* shorter than the minimum is rejected with a configuration error before any
\* GCP client or call ("ab", "my project"); "my-project-1" passes validation.
C10_ProjectIDPreValidation ==
    LET pid == env["GOOGLE_CLOUD_PROJECT"]
    IN  provider = "gcp" =>
          /\ (pid = Empty \/ Contains(pid, " ") \/ Len(pid) < MinProjectIDLen) =>
                RejectedBeforeAnyCall
          /\ pid \in {<<"a", "b">>, MySpaceProject} => RejectedBeforeAnyCall
          /\ (pid = MyProject1 /\ pc \notin {"start", "initializeGCPClients"}
                               /\ err.msg \notin GCPConfigErrors) =>
                Issued("container.NewClusterManagerClient")
          /\ pid = MyProject1 => err.msg # "configuration validation failed"

C10_Witness ==
    /\ provider = "gcp" /\ env["GOOGLE_CLOUD_PROJECT"] = <<"a", "b">>
    /\ pc = "done" /\ err.msg = "configuration validation failed"

----------------------------------------------------------------------------
(* Claims C11 - C20 *)

\* inline credential values that are not standard base64 ("e30", the encoding
\* of "{}" without its padding) ...
NotBase64Credentials == { <<"e","3","0">> }
\* ... and values that decode, to bytes that are no JSON document ("AAAA",
\* three zero bytes)
NotJSONCredentials == { <<"A","A","A","A">> }

\* C11: when RunGCPTest finds GCP_CREDENTIALS_JSON set to a value that is not
\* valid base64, or that decodes to something that is not JSON, it returns a
\* configuration error naming that variable before any GCP client is created
\* or any call is issued; no credential source is tried, so neither the
\* credentials file nor the application default credentials stand in.
C11_BadInlineCredentialsAreFatal ==
    LET j == env["GCP_CREDENTIALS_JSON"]
    IN  (/\ provider = "gcp" /\ entry = "run"
         /\ env["GKE_CLUSTER_NAME"] # Empty /\ env["GOOGLE_CLOUD_PROJECT"] # Empty
         /\ j # Empty
         /\ (MalformedCA(j) \/ j \in NotBase64Credentials \/ j \in NotJSONCredentials))
        => /\ calls = << >> /\ attempts = << >> /\ handles = {}
           /\ ~k8sClient.set
           /\ pc \in {"start", "done"}
           /\ pc = "done" =>
                err.msg = (IF j \in NotJSONCredentials
                           THEN "invalid JSON in GCP_CREDENTIALS_JSON"
                           ELSE "failed to decode GCP_CREDENTIALS_JSON")

\* a broken encoding was rejected although a credentials file was configured
C11_Witness ==
    /\ provider = "gcp" /\ entry = "run" /\ pc = "done"
    /\ env["GCP_CREDENTIALS_JSON"] = <<"e","3","0">>
    /\ env["GOOGLE_APPLICATION_CREDENTIALS"] # Empty
    /\ err.msg = "failed to decode GCP_CREDENTIALS_JSON"
    /\ calls = << >>

\* a connector is executing (main is neither between calls nor exited)
InConnector == pc \notin {"main", "exit"}

\* the connectors that have been started so far, in order
Started == [i \in 1..Len(results) |-> results[i].connector]
             \o (IF InConnector THEN << provider >> ELSE << >>)

\* C12 (as claimed): a process invoked with one provider argument runs exactly
\* that connector and no other; invoked with aws and no EKS_CLUSTER_NAME it
\* ends with the EKS_CLUSTER_NAME-missing error of the EKS connector.
C12_ExplicitSelectionRunsOnlyThat ==
    (program \in Programs /\ Len(argv) = 1) =>
        /\ \A i \in 1..Len(Started) : Started[i] = argv[1]
        /\ exitCode # -1 => Len(Started) = 1
        /\ (argv = << "aws" >> /\ env["EKS_CLUSTER_NAME"] = Empty /\ exitCode # -1) =>
              /\ exitCode = 1
              /\ results[1].err.msg = "EKS_CLUSTER_NAME environment variable is required"

\* the variables the usage text names for a provider are all set
Detected(p) ==
    CASE p = "aws"   -> env["EKS_CLUSTER_NAME"] # Empty
      [] p = "gcp"   -> env["GKE_CLUSTER_NAME"] # Empty /\ env["GOOGLE_CLOUD_PROJECT"] # Empty
      [] p = "azure" -> env["AZURE_RESOURCE_GROUP"] # Empty /\ env["AZURE_SUBSCRIPTION_ID"] # Empty

\* C13 (as claimed): a process invoked without argument runs a connector if
\* and only if the variables that connector requires are set; a connector
\* whose variables are absent is skipped and is no failure.
C13_AutoDetectionSkipsAbsent ==
    (program \in Programs /\ argv = << >>) =>
        /\ \A i \in 1..Len(Started) : Detected(Started[i])
        /\ exitCode = 0 =>
              \A p \in {"aws", "gcp", "azure"} :
                  Detected(p) => \E i \in 1..Len(Started) : Started[i] = p

\* C14: the connectors of a process run one after another, never two at a
\* time, in the order main calls them; a connector starts only when every
\* earlier one has returned success; as soon as one returns an error the
\* process exits with status 1 and starts no further connector; the process
\* exits with status 0 only when every connector of its main returned success.
C14_SequentialFailFast ==
    program \in Programs =>
        /\ Len(Started) <= Len(Order(program))
        /\ \A i \in 1..Len(Started) : Started[i] = Order(program)[i]
        /\ Len(Started) <= Len(results) + 1
        /\ \A i \in 1..Len(results) :
              results[i].err # NoErr => (i = Len(results) /\ ~InConnector /\ exitCode = 1)
        /\ exitCode = 1 <=> (results # << >> /\ results[Len(results)].err # NoErr)
        /\ exitCode = 0 <=> (/\ Len(results) = Len(Order(program))
                             /\ \A i \in 1..Len(results) : results[i].err = NoErr)
        /\ exitCode # -1 <=> pc = "exit"
        /\ exitCode \in {-1, 0, 1}

\* the second connector of main failed: the first had succeeded, the third
\* was never started, the process exited with status 1
C14_Witness ==
    /\ program = "main.go" /\ pc = "exit" /\ exitCode = 1
    /\ Len(results) = 2
    /\ results[1].err = NoErr /\ results[2].err # NoErr

\* C15 (as claimed): the bearer token of a GKE session is minted from the
\* credential source the resolver selected (inline JSON, file, or the
\* application default credentials).
C15_TokenFromResolvedSource ==
    provider = "gcp" =>
        /\ token # "none" => token = attempts[1]
        /\ k8sClient.set => k8sClient.token = attempts[1]
        /\ \A i \in 1..Len(calls) : calls[i].op = "tokenSource.Token" => calls[i].arg = attempts[1]

AWSValidationErrors ==
    {"failed to validate AWS credentials", "incomplete AWS caller identity information"}

\* C16: the AWS resolver stores the loaded configuration only after
\* sts.GetCallerIdentity, called with the credentials of the selected source,
\* has answered without error and with account, ARN and user id all present;
\* when the call fails or a field is missing, resolution fails with the
\* validation error, nothing is stored and eks.DescribeCluster is never called.
C16_AWSValidationGatesResolution ==
    provider = "aws" =>
        /\ awsConfig # "none" =>
              /\ Len(calls) >= 2 /\ calls[2].op = "sts.GetCallerIdentity"
              /\ calls[2].arg.source = attempts[1] /\ awsConfig = attempts[1]
              /\ calls[2].arg.answer.ok
              /\ calls[2].arg.answer.fields = {"Account", "Arn", "UserId"}
        /\ Issued("eks.DescribeCluster") => awsConfig # "none"
        /\ k8sClient.set => awsConfig # "none"
        /\ (/\ Len(calls) >= 2 /\ calls[2].op = "sts.GetCallerIdentity"
            /\ \/ ~calls[2].arg.answer.ok
               \/ \E f \in {"Account", "Arn", "UserId"} : f \notin calls[2].arg.answer.fields)
           => /\ pc = "done" /\ err.msg \in AWSValidationErrors
              /\ awsConfig = "none"
              /\ Len(calls) = 2
        /\ err.msg \in AWSValidationErrors => (awsConfig = "none" /\ ~Issued("eks.DescribeCluster"))

\* the identity came back without its user id: resolution failed
C16_Witness ==
    /\ provider = "aws" /\ pc = "done"
    /\ err.msg = "incomplete AWS caller identity information"
    /\ calls[2].arg.answer.ok /\ calls[2].arg.answer.fields = {"Account", "Arn"}
    /\ awsConfig = "none"

C18_StorageListingBeforeGetCluster ==
    provider = "gcp" =>
        \A i \in 1..Len(calls) : calls[i].op = "gke.GetCluster" =>
            \E j \in 1..(i - 1) : calls[j].op = "storage.Buckets" /\ calls[j].arg = attempts[1]

\* the calls expected once a connector is connected
ExpectedPostOps ==
    CASE provider = "aws"   -> << "sts.GetCallerIdentity", "eks.DescribeCluster", "pods.List" >>
      [] provider = "gcp"   -> << "gke.GetCluster", "pods.List" >>
      [] provider = "azure" -> << "aks.Get", "pods.List" >>

\* position of the call that created the clientset
ClientsetAt == CHOOSE i \in 1..Len(calls) : calls[i].op = "kubernetes.NewForConfig"

\* C19: on every provider, once the session is built, each post-connection
\* call (identity, cluster info, pod listing) is issued in order whatever the
\* earlier ones answered; a failure is logged and never returned: the
\* connector returns success.
C19_PostConnectionFailuresOnlyLogged ==
    /\ logged # {} => k8sClient.set
    /\ (k8sClient.set /\ pc = "done") =>
          /\ err = NoErr
          /\ Len(calls) = ClientsetAt + Len(ExpectedPostOps)
          /\ \A i \in 1..Len(ExpectedPostOps) : calls[ClientsetAt + i].op = ExpectedPostOps[i]
          /\ logged \subseteq {ExpectedPostOps[i] : i \in 1..Len(ExpectedPostOps)}

\* the identity and the cluster-info call of the EKS connector failed
C19_Witness ==
    /\ provider = "aws" /\ pc = "done" /\ k8sClient.set
    /\ logged = {"sts.GetCallerIdentity", "eks.DescribeCluster"}
    /\ err = NoErr

\* C20 (as claimed): with no region (zone) given, the location the client
\* manager uses for API calls and the one the client reports through
\* GetRegion (GetZone) are the default, for a client built by Run*Test and
\* for one built by NewEKSClient (NewGKEClient) directly.
C20_DefaultLocationUsedAndReported ==
    /\ (provider = "aws" /\ env["AWS_REGION"] = Empty /\ k8sClient.set) =>
          (cfg.Region = <<"us-east-1">> /\ region = <<"us-east-1">>)
    /\ (provider = "gcp" /\ env["GKE_ZONE"] = Empty /\ k8sClient.set) =>
          cfg.Zone = <<"us-central1">>

----------------------------------------------------------------------------
(* Claims C21 - C25 *)

\* positions of the GKE connector at which the client manager holds both clients
GCPSessionSteps == {"GKEinitKubernetesClient", "GKEgetToken", "GKEnewClientset", "connected"}

\* C21: when a GKE connector run has returned, with success or with any
\* error, no GCP API client handle it opened is still open; while the session
\* is being built and used both handles are open.
C21_GCPHandlesClosedOnReturn ==
    provider = "gcp" =>
        /\ pc = "done" => handles = {}
        /\ pc \in GCPSessionSteps => handles = {"gkeClient", "storageClient"}
        /\ handles \subseteq {"gkeClient", "storageClient"}

\* both clients had been opened, the token step failed, the connector returned
C21_Witness ==
    /\ provider = "gcp" /\ pc = "done"
    /\ err.msg = "failed to get access token"
    /\ Issued("container.NewClusterManagerClient") /\ Issued("storage.NewClient")
    /\ handles = {}

\* the storage client could not be created: the GKE client was closed again
C21_WitnessStorage ==
    /\ provider = "gcp" /\ pc = "done"
    /\ err.msg = "failed to create storage client"
    /\ handles = {}

\* C22 (as claimed): when the Azure AD token cannot be obtained for a running
\* cluster, the AKS connector fetches the admin credentials
\* (ListClusterAdminCredentials) and does not fail with the token error.
C22_TokenFailureFallsBackToKubeconfig ==
    (/\ provider = "azure" /\ pc = "done"
     /\ cluster.status = "Running"
     /\ Issued("credential.GetToken") /\ token = "none")
    => /\ Issued("aks.ListClusterAdminCredentials")
       /\ err.msg # "failed to get Azure AD token"

\* the required input a connector run lacks: the message of the error it has
\* to return, "" when nothing is missing
MissingInput ==
    CASE provider = "aws" ->
           IF env["EKS_CLUSTER_NAME"] = Empty
           THEN "EKS_CLUSTER_NAME environment variable is required" ELSE ""
      [] provider = "gcp" ->
           IF env["GKE_CLUSTER_NAME"] = Empty
           THEN "GKE_CLUSTER_NAME environment variable is required"
           ELSE IF env["GOOGLE_CLOUD_PROJECT"] = Empty
           THEN "GOOGLE_CLOUD_PROJECT environment variable is required" ELSE ""
      [] provider = "azure" ->
           IF env["AZURE_RESOURCE_GROUP"] = Empty
           THEN "AZURE_RESOURCE_GROUP environment variable must be set"
           ELSE IF env["AZURE_SUBSCRIPTION_ID"] = Empty
           THEN "AZURE_SUBSCRIPTION_ID environment variable must be set" ELSE ""

\* every message a connector returns for a missing input
MissingInputErrors ==
    { "EKS_CLUSTER_NAME environment variable is required",
      "GKE_CLUSTER_NAME environment variable is required",
      "GOOGLE_CLOUD_PROJECT environment variable is required",
      "AZURE_RESOURCE_GROUP environment variable must be set",
      "AZURE_SUBSCRIPTION_ID environment variable must be set" }

\* C23: a Run*Test whose required input is empty returns the configuration
\* error naming that input at once: no credential source has been selected and
\* no external call issued; it returns such an error in no other case. An
\* empty AKS_CLUSTER_NAME is no error: the AKS connector goes on with the
\* default cluster name.
C23_RequiredInputsCheckedFirst ==
    entry = "run" =>
        /\ MissingInput # "" =>
              /\ attempts = << >> /\ calls = << >> /\ ~k8sClient.set
              /\ pc \in {"start", "done"}
              /\ pc = "done" => err.msg = MissingInput
        /\ err.msg \in MissingInputErrors => err.msg = MissingInput
        /\ (provider = "azure" /\ MissingInput = "" /\ pc # "start") =>
              cfg.ClusterName = (IF env["AKS_CLUSTER_NAME"] = Empty
                                 THEN << "my-aks-cluster" >> ELSE env["AKS_CLUSTER_NAME"])

\* the subscription was missing: the AKS connector returned before any call
C23_Witness ==
    /\ provider = "azure" /\ entry = "run" /\ pc = "done"
    /\ env["AZURE_RESOURCE_GROUP"] # Empty /\ env["AZURE_SUBSCRIPTION_ID"] = Empty
    /\ err.msg = "AZURE_SUBSCRIPTION_ID environment variable must be set"
    /\ calls = << >>

\* the AKS connector is connected to the default cluster name
C23_WitnessDefaultName ==
    /\ provider = "azure" /\ env["AKS_CLUSTER_NAME"] = Empty
    /\ k8sClient.set /\ cfg.ClusterName = << "my-aks-cluster" >>

\* the stage an error message names
Stage(msg) ==
    CASE msg \in MissingInputErrors \cup GCPConfigErrors -> "input check"
      [] msg \in {"failed to load AWS configuration", "failed to create GKE client",
                  "failed to create storage client", "failed to create Azure credential",
                  "failed to create AKS client"} -> "credential load"
      [] msg \in AWSValidationErrors \cup {"credential validation failed"} -> "credential validation"
      [] msg \in {"failed to describe EKS cluster", "failed to get GKE cluster",
                  "failed to get AKS cluster"} -> "cluster fetch"
      [] msg \in {"cluster is not active, current status", "cluster is not running, current status",
                  "cluster power state is unknown", "cluster properties are nil",
                  "cluster FQDN is not available"} -> "readiness check"
      [] msg \in {"failed to create token generator", "failed to generate auth token",
                  "failed to get Google Cloud credentials", "failed to get access token",
                  "failed to get Azure AD token"} -> "token acquisition"
      [] msg \in {"failed to decode certificate authority data",
                  "no CA certificate found in cluster credentials"} -> "CA extraction"
      [] msg = "failed to create Kubernetes clientset" -> "clientset construction"
      [] OTHER -> "none"

\* the stages an external call belongs to: its own, and those of the checks
\* made on its answer
StagesOf(op) ==
    CASE op \in {"config.LoadDefaultConfig", "container.NewClusterManagerClient",
                 "storage.NewClient", "azidentity.NewCredential",
                 "armcontainerservice.NewManagedClustersClient"} -> {"credential load"}
      [] op \in {"sts.GetCallerIdentity", "storage.Buckets"} -> {"credential validation"}
      [] op \in {"eks.DescribeCluster", "gke.GetCluster"} ->
             {"cluster fetch", "readiness check", "CA extraction"}
      [] op = "aks.Get" -> {"cluster fetch", "readiness check"}
      [] op \in {"token.NewGenerator", "token.GetWithOptions", "google.FindDefaultCredentials",
                 "tokenSource.Token", "credential.GetToken"} -> {"token acquisition"}
      [] op = "aks.ListClusterUserCredentials" -> {"CA extraction"}
      [] op = "kubernetes.NewForConfig" -> {"clientset construction"}
      [] OTHER -> {}

\* the external call whose error an error message wraps, "" when it wraps none
Wraps(msg) ==
    CASE msg = "failed to load AWS configuration"        -> "config.LoadDefaultConfig"
      [] msg = "failed to validate AWS credentials"      -> "sts.GetCallerIdentity"
      [] msg = "failed to describe EKS cluster"          -> "eks.DescribeCluster"
      [] msg = "failed to create token generator"        -> "token.NewGenerator"
      [] msg = "failed to generate auth token"           -> "token.GetWithOptions"
      [] msg = "failed to create Kubernetes clientset"   -> "kubernetes.NewForConfig"
      [] msg = "failed to create GKE client"             -> "container.NewClusterManagerClient"
      [] msg = "failed to create storage client"         -> "storage.NewClient"
      [] msg = "credential validation failed"            -> "storage.Buckets"
      [] msg = "failed to get GKE cluster"               -> "gke.GetCluster"
      [] msg = "failed to get Google Cloud credentials"  -> "google.FindDefaultCredentials"
      [] msg = "failed to get access token"              -> "tokenSource.Token"
      [] msg = "failed to create Azure credential"       -> "azidentity.NewCredential"
      [] msg = "failed to create AKS client"             -> "armcontainerservice.NewManagedClustersClient"
      [] msg = "failed to get AKS cluster"               -> "aks.Get"
      [] msg = "failed to get Azure AD token"            -> "credential.GetToken"
      [] OTHER -> ""

\* every error names the stage it occurred at: the stage of the last call
\* issued, or the input check when no call was issued
ErrorNamesItsStage ==
    err # NoErr =>
        /\ pc = "done"
        /\ Stage(err.msg) # "none"
        /\ Stage(err.msg) = "input check" <=> calls = << >>
        /\ calls # << >> => Stage(err.msg) \in StagesOf(calls[Len(calls)].op)

DroppedCloseOps == {"GCPClientManager.Close", "gkeClient.Close"}

FetchOp ==
    CASE provider = "aws" -> "eks.DescribeCluster"
      [] provider = "gcp" -> "gke.GetCluster"
      [] provider = "azure" -> "aks.Get"

\* C25: NewEKSClient, NewGKEClient and NewAKSClient hand out a client exactly
\* when they return no error, and its session handle is then set: a connector
\* that is connected, or has returned success, holds a session, a connector
\* that returned an error holds none. A session exists only after one
\* credential source was resolved, the cluster was found running, a token was
\* obtained and the CA data handled; the cluster-info and pod-list calls are
\* issued only with a session.
C25_ConstructionAllOrNothing ==
    /\ err # NoErr => ~k8sClient.set
    /\ (pc = "connected" \/ (pc = "done" /\ err = NoErr)) => k8sClient.set
    /\ k8sClient.set =>
          /\ pc \in {"connected", "done"} /\ err = NoErr
          /\ Len(attempts) = 1
          /\ provider = "aws" => awsConfig = attempts[1]
          /\ cluster.status = RunningValue(provider)
          /\ token # "none" /\ k8sClient.token = token
          /\ k8sClient.ca = caCert
          /\ provider = "azure" => caCert # Empty
          /\ Issued("kubernetes.NewForConfig")
          /\ failed \subseteq DroppedCloseOps
    /\ (Issued("pods.List") \/ Cardinality(CallsOf(FetchOp)) > 1) => k8sClient.set

\* the GKE connector listed the pods: it holds a session
C25_Witness ==
    /\ provider = "gcp" /\ pc = "done" /\ err = NoErr
    /\ Issued("pods.List") /\ k8sClient.set

\* NewForConfig failed for the AKS connector: no client, an error
C25_WitnessFailure ==
    /\ provider = "azure" /\ pc = "done"
    /\ err.msg = "failed to create Kubernetes clientset"
    /\ ~k8sClient.set

====
